---- MODULE Spec2Model ----
(***************************************************************************)
(* Model of cMemLeak.c: three allocation-handle types (CMallocObject,      *)
(* PyRawMallocObject, PyMallocObject) and the module functions py_incref,  *)
(* py_decref and py_bytes_of_size.                                         *)
(*                                                                         *)
(* size_t and Py_ssize_t are modelled with a scaled word width of Bits     *)
(* bits: size_t is 0 .. 2^Bits - 1, Py_ssize_t is -2^(Bits-1) ..           *)
(* 2^(Bits-1) - 1, and a store through a size_t pointer is taken modulo    *)
(* 2^Bits.                                                                 *)
(***************************************************************************)
EXTENDS Integers, Sequences, FiniteSets, TLC

\* ---- bounds of the model ----
Bits == 3
MaxBlocks == 2
MaxObjs == 1
MaxCalls == 2
NoneRefs0 == 4

\* ---- machine integers ----
SIZE_MOD == 2 ^ Bits
SIZE_MAX == SIZE_MOD - 1
PY_SSIZE_T_MAX == 2 ^ (Bits - 1) - 1
PY_SSIZE_T_MIN == 0 - 2 ^ (Bits - 1)

NULL == 0

Variants == {"CMalloc", "PyRawMalloc", "PyMalloc"}
\* The model follows one object slot.  Objects of the three types share no
\* state (each owns its buffer), and the slot is used again after tp_free, so
\* objects of every type pass through it one after the other.
Handles == {1}
Blocks == 1 .. MaxBlocks

\* ---- arguments a caller can pass for "size" ----
IntArg(i) == [kind |-> "int", val |-> i]
MissingArg == [kind |-> "missing", val |-> 0]
NotIntArg == [kind |-> "notint", val |-> 0]
Args == {MissingArg, NotIntArg} \cup {IntArg(i) : i \in (PY_SSIZE_T_MIN - 1) .. (PY_SSIZE_T_MAX + 1)}

VARIABLES
    handles,    \* handle slot -> the object's fields (size, buffer) and lifecycle
    blocks,     \* block id -> which allocator returned it, for whom, and the release calls made on it
    last,       \* the last call made on a handle type: operation, argument, return code, error indicator, allocator request
    crashed,    \* the process has faulted (an outcome of undefined behaviour)
    ob_refcnt,  \* object id -> reference count
    ob_state,   \* object id -> "unborn" | "alive" | "freed"
    ob_size,    \* object id -> length of a bytes object
    incs,       \* object id -> number of py_incref calls made on it
    decs,       \* object id -> number of py_decref calls made on it
    newrefs,    \* object id -> number of new references to it returned by module functions
    call        \* the last module function call: function, argument, result, error indicator

hvars == <<handles, blocks, last>>
fvars == <<ob_refcnt, ob_state, ob_size, incs, decs, newrefs, call>>
vars == <<handles, blocks, last, crashed, ob_refcnt, ob_state, ob_size, incs, decs, newrefs, call>>

\* ---- PyArg_ParseTupleAndKeywords(args, kwds, "n", kwlist, &size_t_variable) ----
\* "n" converts a Python integer to Py_ssize_t; the result is stored through
\* the address of a size_t, so a negative value is stored modulo 2^Bits.
\* On failure nothing is stored.
PyArg_ParseTupleAndKeywords(arg) ==
    IF arg.kind = "missing" THEN [ok |-> FALSE, exc |-> "TypeError", val |-> 0]
    ELSE IF arg.kind = "notint" THEN [ok |-> FALSE, exc |-> "TypeError", val |-> 0]
    ELSE IF arg.val < PY_SSIZE_T_MIN \/ arg.val > PY_SSIZE_T_MAX
         THEN [ok |-> FALSE, exc |-> "OverflowError", val |-> 0]
    ELSE [ok |-> TRUE, exc |-> "none", val |-> arg.val % SIZE_MOD]

\* ---- the allocators ----
NoBlock == [fam |-> "none", owner |-> 0, variant |-> "none", freedBy |-> <<>>]
NoReq == [fn |-> "none", n |-> 0, res |-> NULL]

FreeSlots(bl) == {b \in Blocks : bl[b].fam = "none"}
FreshBlock(bl) == CHOOSE b \in FreeSlots(bl) : \A c \in FreeSlots(bl) : b <= c

\* malloc / PyMem_RawMalloc / PyMem_Malloc: a request above PY_SSIZE_T_MAX
\* always fails; any other request may fail (ok = FALSE) or return a new block.
Allocate(bl, n, ok) ==
    IF n > PY_SSIZE_T_MAX \/ ~ok THEN NULL ELSE FreshBlock(bl)

\* The release function that belongs to each allocation function.
MatchingFree(fam) ==
    CASE fam = "malloc" -> "free"
      [] fam = "PyMem_RawMalloc" -> "PyMem_RawFree"
      [] fam = "PyMem_Malloc" -> "PyMem_Free"
      [] OTHER -> "none"

\* free / PyMem_RawFree / PyMem_Free of buf: nothing happens for NULL.
Release(bl, fn, buf) ==
    IF buf = NULL THEN bl ELSE [bl EXCEPT ![buf].freedBy = Append(@, fn)]

\* The release is undefined behaviour when the block came from another
\* allocator family or was released before.
ReleaseUB(bl, fn, buf) ==
    buf # NULL /\ (MatchingFree(bl[buf].fam) # fn \/ bl[buf].freedBy # <<>>)

\* ---- the object fields ----
NoHandle == [st |-> "none", variant |-> "none", size |-> 0, buffer |-> NULL, inited |-> FALSE]


\* ---- CMallocObject ----
CMallocObject_dealloc(self, bl) ==
    [self |-> [NoHandle EXCEPT !.st = "dead"],
     blocks |-> Release(bl, "free", self.buffer),
     ub |-> ReleaseUB(bl, "free", self.buffer)]

CMallocObject_new(objOK) ==
    IF objOK
    THEN [st |-> "live", variant |-> "CMalloc", size |-> 0, buffer |-> NULL, inited |-> FALSE]
    ELSE NoHandle

CMallocObject_init(self, arg, ok, bl, h) ==
    LET p == PyArg_ParseTupleAndKeywords(arg) IN
    IF ~p.ok
    THEN [self |-> self, blocks |-> bl, ret |-> 0 - 1, exc |-> p.exc, req |-> NoReq]
    ELSE LET size == IF p.val = 0 THEN 1 ELSE p.val
             buffer == Allocate(bl, size, ok)
         IN  IF buffer = NULL
             THEN [self |-> [self EXCEPT !.size = size, !.buffer = NULL],
                   blocks |-> bl, ret |-> 0 - 1, exc |-> "none",
                   req |-> [fn |-> "malloc", n |-> size, res |-> NULL]]
             ELSE [self |-> [self EXCEPT !.size = size, !.buffer = buffer, !.inited = TRUE],
                   blocks |-> [bl EXCEPT ![buffer] = [fam |-> "malloc", owner |-> h, variant |-> self.variant, freedBy |-> <<>>]],
                   ret |-> 0, exc |-> "none",
                   req |-> [fn |-> "malloc", n |-> size, res |-> buffer]]

CMallocObject_members == [name |-> "size", type |-> "T_ULONG", flags |-> 0]

\* ---- PyRawMallocObject ----
PyRawMallocObject_dealloc(self, bl) ==
    [self |-> [NoHandle EXCEPT !.st = "dead"],
     blocks |-> Release(bl, "PyMem_RawFree", self.buffer),
     ub |-> ReleaseUB(bl, "PyMem_RawFree", self.buffer)]

PyRawMallocObject_new(objOK) ==
    IF objOK
    THEN [st |-> "live", variant |-> "PyRawMalloc", size |-> 0, buffer |-> NULL, inited |-> FALSE]
    ELSE NoHandle

PyRawMallocObject_init(self, arg, ok, bl, h) ==
    LET p == PyArg_ParseTupleAndKeywords(arg) IN
    IF ~p.ok
    THEN [self |-> self, blocks |-> bl, ret |-> 0 - 1, exc |-> p.exc, req |-> NoReq]
    ELSE LET size == IF p.val = 0 THEN 1 ELSE p.val
             buffer == Allocate(bl, size, ok)
         IN  IF buffer = NULL
             THEN [self |-> [self EXCEPT !.size = size, !.buffer = NULL],
                   blocks |-> bl, ret |-> 0 - 1, exc |-> "none",
                   req |-> [fn |-> "PyMem_Malloc", n |-> size, res |-> NULL]]
             ELSE [self |-> [self EXCEPT !.size = size, !.buffer = buffer, !.inited = TRUE],
                   blocks |-> [bl EXCEPT ![buffer] = [fam |-> "PyMem_Malloc", owner |-> h, variant |-> self.variant, freedBy |-> <<>>]],
                   ret |-> 0, exc |-> "none",
                   req |-> [fn |-> "PyMem_Malloc", n |-> size, res |-> buffer]]

PyRawMallocObject_members == [name |-> "size", type |-> "T_ULONG", flags |-> 0]

\* ---- PyMallocObject ----
PyMallocObject_dealloc(self, bl) ==
    [self |-> [NoHandle EXCEPT !.st = "dead"],
     blocks |-> Release(bl, "PyMem_Free", self.buffer),
     ub |-> ReleaseUB(bl, "PyMem_Free", self.buffer)]

PyMallocObject_new(objOK) ==
    IF objOK
    THEN [st |-> "live", variant |-> "PyMalloc", size |-> 0, buffer |-> NULL, inited |-> FALSE]
    ELSE NoHandle

\* Variant of PyMallocObject_init without the "size == 0 becomes 1" step.
PyMallocObject_init_nocoerce(self, arg, ok, bl, h) ==
    LET p == PyArg_ParseTupleAndKeywords(arg) IN
    IF ~p.ok
    THEN [self |-> self, blocks |-> bl, ret |-> 0 - 1, exc |-> p.exc, req |-> NoReq]
    ELSE LET size == p.val
             buffer == Allocate(bl, size, ok)
         IN  IF buffer = NULL
             THEN [self |-> [self EXCEPT !.size = size, !.buffer = NULL],
                   blocks |-> bl, ret |-> 0 - 1, exc |-> "none",
                   req |-> [fn |-> "PyMem_Malloc", n |-> size, res |-> NULL]]
             ELSE [self |-> [self EXCEPT !.size = size, !.buffer = buffer, !.inited = TRUE],
                   blocks |-> [bl EXCEPT ![buffer] = [fam |-> "PyMem_Malloc", owner |-> h, variant |-> self.variant, freedBy |-> <<>>]],
                   ret |-> 0, exc |-> "none",
                   req |-> [fn |-> "PyMem_Malloc", n |-> size, res |-> buffer]]

PyMallocObject_init(self, arg, ok, bl, h) ==
    LET p == PyArg_ParseTupleAndKeywords(arg) IN
    IF ~p.ok
    THEN [self |-> self, blocks |-> bl, ret |-> 0 - 1, exc |-> p.exc, req |-> NoReq]
    ELSE LET size == IF p.val = 0 THEN 1 ELSE p.val
             buffer == Allocate(bl, size, ok)
         IN  IF buffer = NULL
             THEN [self |-> [self EXCEPT !.size = size, !.buffer = NULL],
                   blocks |-> bl, ret |-> 0 - 1, exc |-> "none",
                   req |-> [fn |-> "PyMem_Malloc", n |-> size, res |-> NULL]]
             ELSE [self |-> [self EXCEPT !.size = size, !.buffer = buffer, !.inited = TRUE],
                   blocks |-> [bl EXCEPT ![buffer] = [fam |-> "PyMem_Malloc", owner |-> h, variant |-> self.variant, freedBy |-> <<>>]],
                   ret |-> 0, exc |-> "none",
                   req |-> [fn |-> "PyMem_Malloc", n |-> size, res |-> buffer]]

PyMallocObject_members == [name |-> "size", type |-> "T_ULONG", flags |-> 0]

\* ---- the type objects: slot dispatch ----
tp_new(v, objOK) ==
    CASE v = "CMalloc" -> CMallocObject_new(objOK)
      [] v = "PyRawMalloc" -> PyRawMallocObject_new(objOK)
      [] v = "PyMalloc" -> PyMallocObject_new(objOK)

tp_init(v, self, arg, ok, bl, h) ==
    CASE v = "CMalloc" -> CMallocObject_init(self, arg, ok, bl, h)
      [] v = "PyRawMalloc" -> PyRawMallocObject_init(self, arg, ok, bl, h)
      [] v = "PyMalloc" -> PyMallocObject_init(self, arg, ok, bl, h)

tp_dealloc(v, self, bl) ==
    CASE v = "CMalloc" -> CMallocObject_dealloc(self, bl)
      [] v = "PyRawMalloc" -> PyRawMallocObject_dealloc(self, bl)
      [] v = "PyMalloc" -> PyMallocObject_dealloc(self, bl)

tp_members(v) ==
    CASE v = "CMalloc" -> CMallocObject_members
      [] v = "PyRawMalloc" -> PyRawMallocObject_members
      [] v = "PyMalloc" -> PyMallocObject_members

\* structmember.h: a member whose flags have READONLY set rejects assignment.
READONLY == 1

\* Reading the member "size" (T_ULONG at offsetof(size)).
PyMember_GetOne(self) == self.size

\* Assigning v to the member "size".
PyMember_SetOne(member, self, v) ==
    IF member.flags = READONLY
    THEN [self |-> self, ret |-> 0 - 1, exc |-> "AttributeError"]
    ELSE [self |-> [self EXCEPT !.size = v], ret |-> 0, exc |-> "none"]


\* ---- operations a caller performs on the handle types ----
NoCall == [op |-> "none", h |-> 0, arg |-> MissingArg, ret |-> 0, exc |-> "none", req |-> NoReq]
NoFn == [fn |-> "none", x |-> NULL, arg |-> MissingArg, ret |-> NULL, exc |-> "none", alloc |-> "none", ub |-> FALSE]

\* An object slot is available when no object was ever placed there or the
\* object placed there has been deallocated (tp_free returned its memory).
Vacant(h) == handles[h].st \in {"none", "dead"}
NextHandle == CHOOSE h \in Handles : Vacant(h) /\ \A g \in Handles : Vacant(g) => h <= g

\* T.__new__(T): tp_new alone; the object exists with size 0 and no buffer.
New(h, v, objOK) ==
    /\ ~crashed
    /\ \E g \in Handles : Vacant(g)
    /\ h = NextHandle
    /\ LET self == tp_new(v, objOK) IN
        /\ handles' = IF self.st = "none" THEN handles ELSE [handles EXCEPT ![h] = self]
        /\ last' = [op |-> "new", h |-> h, arg |-> MissingArg,
                    ret |-> IF self.st = "none" THEN 0 - 1 ELSE 0,
                    exc |-> IF self.st = "none" THEN "MemoryError" ELSE "none",
                    req |-> NoReq]
    /\ UNCHANGED <<blocks, crashed>>
    /\ UNCHANGED fvars

\* obj.__init__(size): tp_init on an object that already exists.
Init(h, arg, ok) ==
    /\ ~crashed
    /\ handles[h].st = "live"
    /\ FreeSlots(blocks) # {}
    /\ LET r == tp_init(handles[h].variant, handles[h], arg, ok, blocks, h) IN
        /\ handles' = [handles EXCEPT ![h] = r.self]
        /\ blocks' = r.blocks
        /\ last' = [op |-> "init", h |-> h, arg |-> arg, ret |-> r.ret, exc |-> r.exc, req |-> r.req]
    /\ UNCHANGED crashed
    /\ UNCHANGED fvars

\* T(size): the type call runs tp_new, then tp_init, and drops the only
\* reference to the object (tp_dealloc) when tp_init returns -1.
Construct(h, v, arg, objOK, ok) ==
    /\ ~crashed
    /\ \E g \in Handles : Vacant(g)
    /\ h = NextHandle
    /\ FreeSlots(blocks) # {}
    /\ LET self == tp_new(v, objOK) IN
        IF self.st = "none"
        THEN /\ last' = [op |-> "construct", h |-> h, arg |-> arg, ret |-> 0 - 1,
                         exc |-> "MemoryError", req |-> NoReq]
             /\ UNCHANGED <<handles, blocks, crashed>>
        ELSE LET r == tp_init(v, self, arg, ok, blocks, h) IN
             IF r.ret < 0
             THEN LET d == tp_dealloc(v, r.self, r.blocks) IN
                  /\ handles' = [handles EXCEPT ![h] = d.self]
                  /\ blocks' = d.blocks
                  /\ crashed' \in (IF d.ub THEN BOOLEAN ELSE {FALSE})
                  /\ last' = [op |-> "construct", h |-> h, arg |-> arg, ret |-> r.ret,
                              exc |-> r.exc, req |-> r.req]
             ELSE /\ handles' = [handles EXCEPT ![h] = r.self]
                  /\ blocks' = r.blocks
                  /\ last' = [op |-> "construct", h |-> h, arg |-> arg, ret |-> r.ret,
                              exc |-> r.exc, req |-> r.req]
                  /\ UNCHANGED crashed
    /\ UNCHANGED fvars

\* The last reference to the object goes away: tp_dealloc.  A release that
\* is undefined behaviour either goes unnoticed or faults.
Dealloc(h) ==
    /\ ~crashed
    /\ handles[h].st = "live"
    /\ LET d == tp_dealloc(handles[h].variant, handles[h], blocks) IN
        /\ handles' = [handles EXCEPT ![h] = d.self]
        /\ blocks' = d.blocks
        /\ crashed' \in (IF d.ub THEN BOOLEAN ELSE {FALSE})
        /\ last' = [op |-> "dealloc", h |-> h, arg |-> MissingArg, ret |-> 0, exc |-> "none", req |-> NoReq]
    /\ UNCHANGED fvars

\* obj.size = v: assignment through the member table.
SetAttr(h, v) ==
    /\ ~crashed
    /\ handles[h].st = "live"
    /\ LET r == PyMember_SetOne(tp_members(handles[h].variant), handles[h], v) IN
        /\ handles' = [handles EXCEPT ![h] = r.self]
        /\ last' = [op |-> "setattr", h |-> h, arg |-> IntArg(v), ret |-> r.ret, exc |-> r.exc, req |-> NoReq]
    /\ UNCHANGED <<blocks, crashed>>
    /\ UNCHANGED fvars

\* ---- objects known to the module functions ----
Py_None == 1
nullstring == 2
Objs == 1 .. (2 + MaxObjs)


\* Py_INCREF(op) / Py_DECREF(op) on the reference-count field.
Py_INCREF(rc, x) == [rc EXCEPT ![x] = @ + 1]

\* Variant of Py_DECREF that leaves the count alone.
Py_DECREF_skipped(rc, x) == rc

Py_DECREF(rc, x) == [rc EXCEPT ![x] = @ - 1]

\* What a freed object's reference-count field may hold after it is written
\* through a dangling pointer.
Garbage == 0 .. 2

FnCall(fn, x, arg, ret, exc, alloc, ub) ==
    [fn |-> fn, x |-> x, arg |-> arg, ret |-> ret, exc |-> exc, alloc |-> alloc, ub |-> ub]

\* py_incref(module, pobj): Py_INCREF(pobj); Py_RETURN_NONE.
\* On an object that was already freed the write is undefined behaviour:
\* the process faults, or the field ends up with some value.
py_incref(x) ==
    /\ ~crashed
    /\ ob_state[x] # "unborn"
    /\ newrefs[Py_None] < MaxCalls
    /\ IF ob_state[x] = "alive"
       THEN /\ ob_refcnt' = Py_INCREF(Py_INCREF(ob_refcnt, x), Py_None)
            /\ incs' = [incs EXCEPT ![x] = @ + 1]
            /\ newrefs' = [newrefs EXCEPT ![Py_None] = @ + 1]
            /\ call' = FnCall("py_incref", x, MissingArg, Py_None, "none", "none", FALSE)
            /\ UNCHANGED crashed
       ELSE \/ /\ crashed' = TRUE
               /\ call' = FnCall("py_incref", x, MissingArg, NULL, "none", "none", TRUE)
               /\ UNCHANGED <<ob_refcnt, incs, newrefs>>
            \/ \E g \in Garbage :
               /\ ob_refcnt' = Py_INCREF([ob_refcnt EXCEPT ![x] = g], Py_None)
               /\ incs' = [incs EXCEPT ![x] = @ + 1]
               /\ newrefs' = [newrefs EXCEPT ![Py_None] = @ + 1]
               /\ call' = FnCall("py_incref", x, MissingArg, Py_None, "none", "none", TRUE)
               /\ UNCHANGED crashed
    /\ UNCHANGED <<ob_state, ob_size, decs>>
    /\ UNCHANGED hvars

\* py_decref(module, pobj): Py_DECREF(pobj); Py_RETURN_NONE.
\* Py_DECREF deallocates the object when its count reaches zero.
py_decref(x) ==
    /\ ~crashed
    /\ ob_state[x] # "unborn"
    /\ newrefs[Py_None] < MaxCalls
    /\ IF ob_state[x] = "alive"
       THEN LET rc == Py_DECREF(ob_refcnt, x) IN
            /\ ob_refcnt' = Py_INCREF(rc, Py_None)
            /\ ob_state' = IF rc[x] = 0 THEN [ob_state EXCEPT ![x] = "freed"] ELSE ob_state
            /\ decs' = [decs EXCEPT ![x] = @ + 1]
            /\ newrefs' = [newrefs EXCEPT ![Py_None] = @ + 1]
            /\ call' = FnCall("py_decref", x, MissingArg, Py_None, "none", "none", FALSE)
            /\ UNCHANGED crashed
       ELSE \/ /\ crashed' = TRUE
               /\ call' = FnCall("py_decref", x, MissingArg, NULL, "none", "none", TRUE)
               /\ UNCHANGED <<ob_refcnt, ob_state, decs, newrefs>>
            \/ \E g \in Garbage :
               /\ ob_refcnt' = Py_INCREF([ob_refcnt EXCEPT ![x] = g], Py_None)
               /\ decs' = [decs EXCEPT ![x] = @ + 1]
               /\ newrefs' = [newrefs EXCEPT ![Py_None] = @ + 1]
               /\ call' = FnCall("py_decref", x, MissingArg, Py_None, "none", "none", TRUE)
               /\ UNCHANGED <<ob_state, crashed>>
    /\ UNCHANGED <<ob_size, incs>>
    /\ UNCHANGED hvars

\* PyBytes_FromStringAndSize(NULL, size) with size converted from size_t to
\* Py_ssize_t: a negative size is a SystemError, size 0 is the shared empty
\* bytes object, a size that leaves no room for the object header is an
\* OverflowError, otherwise the object is allocated (MemoryError on failure).
PyBytes_FromStringAndSize(size, ok) ==
    LET ssize == IF size > PY_SSIZE_T_MAX THEN size - SIZE_MOD ELSE size IN
    IF ssize < 0 THEN [kind |-> "error", exc |-> "SystemError", len |-> 0, alloc |-> "none"]
    ELSE IF ssize = 0 THEN [kind |-> "nullstring", exc |-> "none", len |-> 0, alloc |-> "none"]
    ELSE IF ssize > PY_SSIZE_T_MAX - 1
         THEN [kind |-> "error", exc |-> "OverflowError", len |-> 0, alloc |-> "none"]
    ELSE IF ~ok THEN [kind |-> "error", exc |-> "MemoryError", len |-> 0, alloc |-> "failed"]
    ELSE [kind |-> "new", exc |-> "none", len |-> ssize, alloc |-> "ok"]

Unborn == {x \in Objs : ob_state[x] = "unborn"}
FreshObj == CHOOSE x \in Unborn : \A y \in Unborn : x <= y

\* Variant of py_bytes_of_size that asks for one byte more than requested.
py_bytes_of_size_plus1(arg, ok) ==
    LET p == PyArg_ParseTupleAndKeywords(arg) IN
    IF ~p.ok
    THEN [kind |-> "error", exc |-> p.exc, len |-> 0, alloc |-> "none"]
    ELSE PyBytes_FromStringAndSize((p.val + 1) % SIZE_MOD, ok)

\* py_bytes_of_size(module, args, kwds): parse "size", then return what
\* PyBytes_FromStringAndSize(NULL, size) returns.
py_bytes_of_size(arg, ok) ==
    LET p == PyArg_ParseTupleAndKeywords(arg) IN
    IF ~p.ok
    THEN [kind |-> "error", exc |-> p.exc, len |-> 0, alloc |-> "none"]
    ELSE PyBytes_FromStringAndSize(p.val, ok)

\* A call of py_bytes_of_size and its effect on the objects.  Handing out
\* the shared empty bytes object after it was freed is undefined behaviour.
Call_py_bytes_of_size(arg, ok) ==
    /\ ~crashed
    /\ Unborn # {}
    /\ newrefs[nullstring] < MaxCalls
    /\ LET r == py_bytes_of_size(arg, ok) IN
       CASE r.kind = "error" ->
              /\ call' = FnCall("py_bytes_of_size", NULL, arg, NULL, r.exc, r.alloc, FALSE)
              /\ UNCHANGED <<ob_refcnt, ob_state, ob_size, newrefs, crashed>>
         [] r.kind = "nullstring" /\ ob_state[nullstring] = "alive" ->
              /\ ob_refcnt' = Py_INCREF(ob_refcnt, nullstring)
              /\ newrefs' = [newrefs EXCEPT ![nullstring] = @ + 1]
              /\ call' = FnCall("py_bytes_of_size", NULL, arg, nullstring, "none", r.alloc, FALSE)
              /\ UNCHANGED <<ob_state, ob_size, crashed>>
         [] r.kind = "nullstring" /\ ob_state[nullstring] # "alive" ->
              \/ /\ crashed' = TRUE
                 /\ call' = FnCall("py_bytes_of_size", NULL, arg, NULL, "none", r.alloc, TRUE)
                 /\ UNCHANGED <<ob_refcnt, ob_state, ob_size, newrefs>>
              \/ \E g \in Garbage :
                 /\ ob_refcnt' = [ob_refcnt EXCEPT ![nullstring] = g]
                 /\ newrefs' = [newrefs EXCEPT ![nullstring] = @ + 1]
                 /\ call' = FnCall("py_bytes_of_size", NULL, arg, nullstring, "none", r.alloc, TRUE)
                 /\ UNCHANGED <<ob_state, ob_size, crashed>>
         [] r.kind = "new" ->
              /\ ob_refcnt' = [ob_refcnt EXCEPT ![FreshObj] = 1]
              /\ ob_state' = [ob_state EXCEPT ![FreshObj] = "alive"]
              /\ ob_size' = [ob_size EXCEPT ![FreshObj] = r.len]
              /\ newrefs' = [newrefs EXCEPT ![FreshObj] = @ + 1]
              /\ call' = FnCall("py_bytes_of_size", NULL, arg, FreshObj, "none", r.alloc, FALSE)
              /\ UNCHANGED crashed
    /\ UNCHANGED <<incs, decs>>
    /\ UNCHANGED hvars

Init0 ==
    /\ handles = [h \in Handles |-> NoHandle]
    /\ blocks = [b \in Blocks |-> NoBlock]
    /\ last = NoCall
    /\ crashed = FALSE
    /\ ob_refcnt = [x \in Objs |-> IF x = Py_None THEN NoneRefs0 ELSE IF x = nullstring THEN 1 ELSE 0]
    /\ ob_state = [x \in Objs |-> IF x \in {Py_None, nullstring} THEN "alive" ELSE "unborn"]
    /\ ob_size = [x \in Objs |-> 0]
    /\ incs = [x \in Objs |-> 0]
    /\ decs = [x \in Objs |-> 0]
    /\ newrefs = [x \in Objs |-> 0]
    /\ call = NoFn

\* values a caller assigns to "size": zero and one more than any block size
SetValues == {0, PY_SSIZE_T_MAX + 1}

Next ==
    \/ \E h \in Handles, v \in Variants : New(h, v, TRUE)
    \/ \E h \in Handles, v \in Variants : New(h, v, FALSE)
    \/ \E h \in Handles, arg \in Args, ok \in BOOLEAN : Init(h, arg, ok)
    \/ \E h \in Handles, v \in Variants, arg \in Args, ok \in BOOLEAN : Construct(h, v, arg, TRUE, ok)
    \/ \E h \in Handles, v \in Variants : Construct(h, v, MissingArg, FALSE, FALSE)
    \/ \E h \in Handles : Dealloc(h)
    \/ \E h \in Handles, v \in SetValues : SetAttr(h, v)

Spec == Init0 /\ [][Next]_vars


\* The module functions, called in any order on any object.
NextFn ==
    \/ \E x \in Objs : py_incref(x)
    \/ \E x \in Objs : py_decref(x)
    \/ \E arg \in Args, ok \in BOOLEAN : Call_py_bytes_of_size(arg, ok)

SpecFn == Init0 /\ [][NextFn]_vars


\* ---- properties ----
Allocated == {b \in Blocks : blocks[b].fam # "none"}
Unreleased(h) == {b \in Allocated : blocks[b].owner = h /\ blocks[b].freedBy = <<>>}
Max1(n) == IF n = 0 THEN 1 ELSE n
ValidSize(arg) == arg.kind = "int" /\ arg.val >= 0 /\ arg.val <= PY_SSIZE_T_MAX
InvalidArgument == {"TypeError", "OverflowError", "ValueError"}

\* C1: every release of a block is made by the release function of the
\* allocator that returned it (free for malloc, PyMem_RawFree for
\* PyMem_RawMalloc, PyMem_Free for PyMem_Malloc).
C1_ReleaseMatchesAllocator ==
    \A b \in Allocated : \A i \in 1 .. Len(blocks[b].freedBy) :
        blocks[b].freedBy[i] = MatchingFree(blocks[b].fam)

\* C2: when the variant's allocator returns no block during a construction,
\* the construction fails with MemoryError set and leaves no live handle.
C2_AllocFailureIsOutOfMemory ==
    (last.op = "construct" /\ last.req.fn # "none" /\ last.req.res = NULL)
        => /\ last.ret < 0
           /\ last.exc = "MemoryError"
           /\ handles[last.h].st # "live"

\* C3: blocks requested by handles of two different variants come from two
\* different allocation functions.
C3_DistinctAllocators ==
    \A b \in Allocated : \A c \in Allocated :
        blocks[b].variant # blocks[c].variant => blocks[b].fam # blocks[c].fam

\* C4: a live handle whose initialisation has succeeded once has a non-null
\* buffer, whatever was called on it afterwards.
C4_BufferNonNull ==
    \A h \in Handles :
        (handles[h].st = "live" /\ handles[h].inited) => handles[h].buffer # NULL

\* C5: for a size n in 0 .. PY_SSIZE_T_MAX the allocator is asked for
\* max(n, 1) bytes and, when it returns a block, the size attribute reads
\* max(n, 1); an initialisation with 0 has the same outcome as one with 1.
C5_SizeCoercedToOne ==
    /\ (last.op \in {"construct", "init"} /\ ValidSize(last.arg))
          => /\ last.req.fn # "none"
             /\ last.req.n = Max1(last.arg.val)
             /\ (last.ret = 0 => /\ handles[last.h].st = "live"
                                 /\ PyMember_GetOne(handles[last.h]) = Max1(last.arg.val))
    /\ FreeSlots(blocks) # {} =>
          \A v \in Variants, ok \in BOOLEAN, h \in Handles :
              tp_init(v, tp_new(v, TRUE), IntArg(0), ok, blocks, h)
                  = tp_init(v, tp_new(v, TRUE), IntArg(1), ok, blocks, h)

C5_Witness ==
    /\ last.op = "construct"
    /\ last.arg = IntArg(0)
    /\ last.ret = 0
    /\ last.req.n = 1
    /\ handles[last.h].variant = "PyMalloc"
    /\ handles[last.h].size = 1

\* C6: an assignment to the size attribute of a live handle is rejected and
\* leaves the stored size unchanged.
C6_SizeReadOnly ==
    [][(last'.op = "setattr")
          => /\ last'.exc # "none"
             /\ handles'[last'.h].size = handles[last'.h].size]_vars

\* C7: an initialisation or construction whose size argument is missing, not
\* an integer or negative fails with an argument error, never calls the
\* allocator, and an initialisation of an existing handle leaves its size and
\* buffer as they were.
C7_MalformedSizeRejected ==
    [][(last'.op \in {"construct", "init"} /\ last'.exc # "MemoryError" /\ ~ValidSize(last'.arg))
          => /\ last'.ret < 0
             /\ last'.exc \in InvalidArgument
             /\ last'.req.fn = "none"
             /\ (last'.op = "init" =>
                   /\ handles'[last'.h].size = handles[last'.h].size
                   /\ handles'[last'.h].buffer = handles[last'.h].buffer)]_vars

\* C8: py_bytes_of_size(n) for n in 0 .. PY_SSIZE_T_MAX returns, when it
\* returns an object, a bytes object of length n; n = 0 always returns a
\* zero-length object; a failed allocation gives MemoryError and no object.
C8_BytesLength ==
    (call.fn = "py_bytes_of_size" /\ ~call.ub /\ ValidSize(call.arg))
        => /\ (call.ret # NULL => ob_size[call.ret] = call.arg.val /\ call.exc = "none")
           /\ (call.arg.val = 0 => call.ret # NULL)
           /\ (call.alloc = "ok" => call.ret # NULL)
           /\ (call.alloc = "failed" => call.ret = NULL /\ call.exc = "MemoryError")

C8_Witness ==
    /\ call.fn = "py_bytes_of_size"
    /\ call.arg = IntArg(2)
    /\ call.ret # NULL
    /\ ob_size[call.ret] = 2

\* C9: the reference count of every object that is still alive equals its
\* initial count plus the py_incref calls minus the py_decref calls made on
\* it, plus the references to it that module functions returned (None for
\* py_incref and py_decref); both functions return None.
RefCnt0(x) == IF x = Py_None THEN NoneRefs0 ELSE IF x = nullstring THEN 1 ELSE 0

C9_RefCountArithmetic ==
    /\ \A x \in Objs :
          ob_state[x] = "alive" => ob_refcnt[x] = RefCnt0(x) + incs[x] - decs[x] + newrefs[x]
    /\ (call.fn \in {"py_incref", "py_decref"} /\ ~crashed)
          => call.ret = Py_None /\ call.exc = "none"

C9_Witness ==
    \E x \in Objs \ {Py_None, nullstring} :
        /\ ob_state[x] = "alive"
        /\ incs[x] = 1 /\ decs[x] = 1
        /\ ob_refcnt[x] = 1
        /\ call.fn = "py_decref" /\ call.x = x

\* C10: a live handle has at most one unreleased block, a destroyed handle
\* has none, and no block is released twice.
C10_EveryBlockReleasedOnce ==
    /\ \A h \in Handles :
          /\ handles[h].st = "live" => Cardinality(Unreleased(h)) <= 1
          /\ handles[h].st = "dead" => Unreleased(h) = {}
    /\ \A b \in Allocated : Len(blocks[b].freedBy) <= 1

====
